---- MODULE Spec2Model ----
(***************************************************************************)
(* Model of src/Ping-Tray-2dev.py: NetworkMonitor, a tray application that *)
(* pings two hosts every check_interval seconds from a daemon thread       *)
(* (monitor_thread -> update_status -> ping), keeps a bounded history of   *)
(* the results and a bounded log of status changes, and serves a status    *)
(* window and an Exit command from the tray thread (on_clicked).           *)
(*                                                                         *)
(* Two threads are modelled, each by a program counter:                    *)
(*   m_pc  the monitor thread, one value per statement of monitor_thread,  *)
(*         update_status and ping;                                         *)
(*   u_pc  the main (tray) thread: run, then on_clicked's handlers.        *)
(* Every statement that reads or writes shared state is its own action, so *)
(* the interleavings of the two threads are those of the program (no lock  *)
(* is taken anywhere in the source).                                       *)
(***************************************************************************)
EXTENDS Integers, Sequences, FiniteSets, TLC

VARIABLES
    \* ---- fields of NetworkMonitor
    running,            \* self.running
    device1_status,     \* self.device1_status
    device2_status,     \* self.device2_status
    icon,               \* self.icon is not None
    icon_title,         \* self.icon.title (the tooltip)
    timestamps,         \* self.history['timestamps']
    device1,            \* self.history['device1']
    device2,            \* self.history['device2']
    status_changes,     \* self.history['status_changes']
    \* ---- the monitor thread
    m_pc,               \* its position
    old_status,         \* update_status: old_status
    current_time,       \* update_status: current_time
    ip,                 \* ping: which host is probed (1 = self.ip1, 2 = self.ip2)
    attempt,            \* ping: the loop variable of "for attempt in range(...)"
    ret,                \* ping: the value being returned
    p_tried,            \* trace of this ping call: attempts started
    p_failed,           \* trace of this ping call: attempts that failed
    p_sleeps,           \* trace of this ping call: time.sleep(0.5) calls made
    p_last,             \* trace of this ping call: what the last attempt did
    \* ---- the tray thread
    u_pc,               \* its position
    r_times,            \* show_status_window: times
    r_device1,          \* show_status_window: device1_status (the local list)
    r_device2,          \* show_status_window: device2_status (the local list)
    \* ---- the environment
    now,                \* the clock read by datetime.now()
    network,            \* how the two hosts behave
    notifications,      \* what icon.notify has been given, in order
    \* ---- history of the run
    ticks,              \* calls of update_status started so far
    probed,             \* hosts whose probe has returned in the current tick
    observed            \* per tick, the time taken and the two probe results

vars == <<running, device1_status, device2_status, icon, icon_title, timestamps,
          device1, device2, status_changes, m_pc, old_status, current_time, ip,
          attempt, ret, p_tried, p_failed, p_sleeps, p_last, u_pc, r_times,
          r_device1, r_device2, now, network, notifications, ticks, probed,
          observed>>

fields  == <<running, device1_status, device2_status, icon, icon_title>>
series  == <<timestamps, device1, device2>>
history == <<timestamps, device1, device2, status_changes>>
plocals == <<ip, attempt, ret, p_tried, p_failed, p_sleeps, p_last>>
mlocals == <<old_status, current_time, ip, attempt, ret, p_tried, p_failed,
             p_sleeps, p_last>>
ulocals == <<r_times, r_device1, r_device2>>
env     == <<now, network, notifications>>

(***************************************************************************)
(* Bounds of the model and constants of the program.                       *)
(***************************************************************************)
\* The history window in seconds. The source has 24 * 3600; the model keeps the
\* computation of max_history and scales the window down.
HistorySeconds == 10

\* Ticks explored when the hosts may answer anything.
MaxTicks == 4

\* Ticks explored when the hosts flap on every tick (fills the change log).
LongTicks == 102

ping_retries == 2

check_interval == 5

status_changes_maxlen == 100

\* int(24 * 3600 / self.check_interval): true division, truncated.
max_history == HistorySeconds \div check_interval

(***************************************************************************)
(* Helpers: collections.deque, the status text, the probe outcomes.        *)
(***************************************************************************)
\* A deque created without maxlen: nothing is ever dropped.
DequeAppendUnbounded(q, x, n) == Append(q, x)

\* A deque that makes room at the wrong end: the newest item is dropped.
DequeAppendDropNewest(q, x, n) ==
    IF Len(q) >= n THEN Append(SubSeq(q, 1, Len(q) - 1), x) ELSE Append(q, x)

\* deque(maxlen=n).append(x): a full deque drops its leftmost item first.
DequeAppend(q, x, n) ==
    IF Len(q) >= n THEN Append(Tail(q), x) ELSE Append(q, x)

\* The change log as a deque without maxlen.
LogAppendUnbounded(q, x) == Append(q, x)

\* self.history['status_changes'].append(x), a deque(maxlen=100).
LogAppend(q, x) == DequeAppend(q, x, status_changes_maxlen)

\* get_status_text with the two flags it reads; the two lines of the text.
StatusText(s1, s2) ==
    <<IF s1 THEN "Online" ELSE "Offline", IF s2 THEN "Online" ELSE "Offline">>

\* The text built from the status of the tick before.
get_status_text_stale == StatusText(old_status[1], old_status[2])

get_status_text == StatusText(device1_status, device2_status)

\* 1 if status else 0
Sample(status) == IF status THEN 1 ELSE 0

\* What one attempt of ping can do: exit code 0, a non-zero exit code,
\* subprocess.TimeoutExpired, another subprocess.SubprocessError, any other
\* Exception (Popen failing with OSError, for one).
Failures == {"nonzero", "timeout", "suberror", "exception"}

Outcomes == {"ok"} \cup Failures

\* ping without its last clause, "except Exception".
CaughtSubprocessOnly == {"timeout", "suberror"}

\* The except clauses of ping: the exceptions an attempt raises that the loop
\* body handles itself.
Caught == {"timeout", "suberror", "exception"}

\* The hosts of a flapping network: in scenario "flap1" host 1 answers in every
\* other tick and host 2 never; in "flap2" host 1 always answers and host 2 in
\* every other tick; in "flapboth" both answer in every other tick.
HostUp(h) ==
    CASE network = "flap1"    -> h = 1 /\ ticks % 2 = 1
      [] network = "flap2"    -> h = 1 \/ ticks % 2 = 1
      [] network = "flapboth" -> ticks % 2 = 1
      [] OTHER                -> TRUE

\* What an attempt against host h can do in the current network.
Answers(h) ==
    IF network = "any" THEN Outcomes
    ELSE IF HostUp(h) THEN {"ok"} ELSE Failures

\* How many ticks the model follows.
TickBound == IF network = "any" THEN MaxTicks ELSE LongTicks

(***************************************************************************)
(* The state after NetworkMonitor() has been constructed (__init__).       *)
(***************************************************************************)
Construct ==
    /\ running = TRUE
    /\ device1_status = FALSE
    /\ device2_status = FALSE
    /\ icon = FALSE
    /\ icon_title = <<>>
    /\ timestamps = <<>>
    /\ device1 = <<>>
    /\ device2 = <<>>
    /\ status_changes = <<>>
    /\ m_pc = "unstarted"
    /\ old_status = <<FALSE, FALSE>>
    /\ current_time = 0
    /\ ip = 1
    /\ attempt = 0
    /\ ret = FALSE
    /\ p_tried = 0
    /\ p_failed = 0
    /\ p_sleeps = 0
    /\ p_last = "none"
    /\ u_pc = "main"
    /\ r_times = <<>>
    /\ r_device1 = <<>>
    /\ r_device2 = <<>>
    /\ now = 0
    /\ notifications = <<>>
    /\ ticks = 0
    /\ probed = {}
    /\ observed = <<>>

Init == Construct /\ network = "any"

InitLong == Construct /\ network \in {"flap1", "flap2", "flapboth"}

(***************************************************************************)
(* The monitor thread: monitor_thread, update_status, ping.                *)
(***************************************************************************)
\* while self.running: ... ; the loop ends when the flag is found False.
LoopCheck ==
    /\ m_pc = "loop"
    /\ running => ticks < TickBound
    /\ IF running
          THEN /\ m_pc' = "update"
               /\ ticks' = ticks + 1
               /\ probed' = {}
          ELSE /\ m_pc' = "exited"
               /\ ticks' = ticks
               /\ probed' = probed
    /\ UNCHANGED <<fields, history, mlocals, u_pc, ulocals, env, observed>>

\* old_status = (self.device1_status, self.device2_status), then the call
\* self.ping(self.ip1) enters the attempt loop.
ReadOld ==
    /\ m_pc = "update"
    /\ old_status' = <<device1_status, device2_status>>
    /\ ip' = 1
    /\ attempt' = 0
    /\ m_pc' = "attempt"
    /\ UNCHANGED <<fields, history, current_time, ret, p_tried, p_failed, p_sleeps,
                   p_last, u_pc, ulocals, env, ticks, probed, observed>>

\* Where the loop body of ping goes after an attempt that did `o`.
AfterAttempt(o) ==
    IF o = "ok" THEN "assign"
    ELSE IF o = "nonzero" \/ o \in Caught THEN "backoff"
    ELSE "crashed"

\* One pass of the try block: Popen, communicate, the return code, the handlers.
PingAttempt ==
    /\ m_pc = "attempt"
    /\ \E o \in Answers(ip) :
          /\ p_tried' = p_tried + 1
          /\ p_last' = o
          /\ p_failed' = IF o = "ok" THEN p_failed ELSE p_failed + 1
          /\ ret' = IF o = "ok" THEN TRUE ELSE ret
          /\ m_pc' = AfterAttempt(o)
    /\ UNCHANGED <<fields, history, old_status, current_time, ip, attempt, p_sleeps,
                   u_pc, ulocals, env, ticks, probed, observed>>

\* An off-by-one in the loop bound: one attempt too many.
MoreAttemptsOffByOne(a) == a + 1 <= ping_retries

\* Whether the for loop has another attempt to make after attempt number a.
MoreAttempts(a) == a + 1 < ping_retries

\* time.sleep(0.5) at the end of the loop body, then the next attempt, or
\* "return False" when range(self.ping_retries) is exhausted.
PingBackoff ==
    /\ m_pc = "backoff"
    /\ p_sleeps' = p_sleeps + 1
    /\ attempt' = attempt + 1
    /\ IF MoreAttempts(attempt)
          THEN /\ m_pc' = "attempt"
               /\ ret' = ret
          ELSE /\ m_pc' = "assign"
               /\ ret' = FALSE
    /\ UNCHANGED <<fields, history, old_status, current_time, ip, p_tried, p_failed,
                   p_last, u_pc, ulocals, env, ticks, probed, observed>>

\* update_status going on to record as soon as one probe has returned.
AfterProbeFirstOnly(h) == "now"

\* The statement update_status goes on with when the probe of host h has
\* returned: the probe of host 2 after that of host 1, datetime.now() after both.
AfterProbe(h) == IF h = 1 THEN "attempt" ELSE "now"

\* self.device1_status = <returned>, then self.ping(self.ip2) is entered;
\* self.device2_status = <returned>.
AssignStatus ==
    /\ m_pc = "assign"
    /\ IF ip = 1
          THEN /\ device1_status' = ret
               /\ device2_status' = device2_status
               /\ ip' = 2
          ELSE /\ device2_status' = ret
               /\ device1_status' = device1_status
               /\ ip' = ip
    /\ m_pc' = AfterProbe(ip)
    /\ probed' = probed \cup {ip}
    /\ attempt' = 0
    /\ ret' = FALSE
    /\ p_tried' = 0
    /\ p_failed' = 0
    /\ p_sleeps' = 0
    /\ p_last' = "none"
    /\ UNCHANGED <<running, icon, icon_title, history, old_status, current_time,
                   u_pc, ulocals, env, ticks, observed>>

\* current_time = datetime.now()
TakeTime ==
    /\ m_pc = "now"
    /\ current_time' = now
    /\ observed' = Append(observed,
                          [time |-> now, d1 |-> device1_status, d2 |-> device2_status])
    /\ m_pc' = "app_ts"
    /\ UNCHANGED <<fields, history, old_status, plocals, u_pc, ulocals, env, ticks,
                   probed>>

\* self.history['timestamps'].append(current_time)
AppendTimestamp ==
    /\ m_pc = "app_ts"
    /\ timestamps' = DequeAppend(timestamps, current_time, max_history)
    /\ m_pc' = "app_d1"
    /\ UNCHANGED <<fields, device1, device2, status_changes, mlocals, u_pc, ulocals,
                   env, ticks, probed, observed>>

\* The sample of host 1 stored only when the host is reachable.
AppendDevice1OnlyWhenUp ==
    /\ m_pc = "app_d1"
    /\ device1' = IF device1_status
                     THEN DequeAppend(device1, 1, max_history)
                     ELSE device1
    /\ m_pc' = "app_d2"
    /\ UNCHANGED <<fields, timestamps, device2, status_changes, mlocals, u_pc,
                   ulocals, env, ticks, probed, observed>>

\* self.history['device1'].append(1 if self.device1_status else 0)
AppendDevice1 ==
    /\ m_pc = "app_d1"
    /\ device1' = DequeAppend(device1, Sample(device1_status), max_history)
    /\ m_pc' = "app_d2"
    /\ UNCHANGED <<fields, timestamps, device2, status_changes, mlocals, u_pc,
                   ulocals, env, ticks, probed, observed>>

\* self.history['device2'].append(1 if self.device2_status else 0)
AppendDevice2 ==
    /\ m_pc = "app_d2"
    /\ device2' = DequeAppend(device2, Sample(device2_status), max_history)
    /\ m_pc' = "record"
    /\ UNCHANGED <<fields, timestamps, device1, status_changes, mlocals, u_pc,
                   ulocals, env, ticks, probed, observed>>

\* The comparison made with the constructed status instead of old_status.
StatusChangedFromConstructed == <<device1_status, device2_status>> # <<FALSE, FALSE>>

\* A slip in the comparison: only the first host is compared.
StatusChangedFirstHostOnly == device1_status # old_status[1]

\* (self.device1_status, self.device2_status) != old_status
StatusChanged == <<device1_status, device2_status>> # old_status

\* The change_record dictionary with old and new taken the wrong way round.
ChangeRecordSwapped ==
    [time    |-> current_time,
     device1 |-> [old |-> device1_status, new |-> old_status[1]],
     device2 |-> [old |-> device2_status, new |-> old_status[2]]]

\* The change_record dictionary.
ChangeRecord ==
    [time    |-> current_time,
     device1 |-> [old |-> old_status[1], new |-> device1_status],
     device2 |-> [old |-> old_status[2], new |-> device2_status]]

\* "Record status changes": append change_record when the status changed.
RecordChange ==
    /\ m_pc = "record"
    /\ status_changes' =
          IF StatusChanged
             THEN LogAppend(status_changes, ChangeRecord)
             ELSE status_changes
    /\ m_pc' = "icon"
    /\ UNCHANGED <<fields, series, mlocals, u_pc, ulocals, env, ticks, probed, observed>>

\* if self.icon: the icon image and the tooltip are refreshed; without an icon
\* update_status returns here.
UpdateIcon ==
    /\ m_pc = "icon"
    /\ IF icon
          THEN /\ icon_title' = get_status_text
               /\ m_pc' = "notify"
          ELSE /\ icon_title' = icon_title
               /\ m_pc' = "sleep"
    /\ UNCHANGED <<running, device1_status, device2_status, icon, history, mlocals,
                   u_pc, ulocals, env, ticks, probed, observed>>

\* "Notify on status change": self.icon.notify(title, message), then
\* update_status returns.
Notify ==
    /\ m_pc = "notify"
    /\ notifications' =
          IF StatusChanged
             THEN Append(notifications,
                         [title |-> "Network Status Change", message |-> get_status_text])
             ELSE notifications
    /\ m_pc' = "sleep"
    /\ UNCHANGED <<fields, history, mlocals, u_pc, ulocals, now, network, ticks, probed,
                   observed>>

\* time.sleep(self.check_interval)
Sleep ==
    /\ m_pc = "sleep"
    /\ now' = now + check_interval
    /\ m_pc' = "loop"
    /\ UNCHANGED <<fields, history, mlocals, u_pc, ulocals, network, notifications,
                   ticks, probed, observed>>

\* The clock datetime.now() reads is the local wall clock: it is set back when
\* daylight saving time ends or when the system time is corrected. The step
\* back is scaled to one check interval.
ClockSetBack ==
    /\ now >= check_interval
    /\ now' = now - check_interval
    /\ UNCHANGED <<fields, history, m_pc, mlocals, u_pc, ulocals, network,
                   notifications, ticks, probed, observed>>

(***************************************************************************)
(* The main thread: run, then the tray's menu handlers (on_clicked).       *)
(***************************************************************************)
\* run: the icon is created with the initial tooltip, the monitor thread is
\* started (daemon=True), and icon.run() serves the menu.
Run ==
    /\ u_pc = "main"
    /\ icon' = TRUE
    /\ icon_title' = get_status_text
    /\ m_pc' = "loop"
    /\ u_pc' = "tray"
    /\ UNCHANGED <<running, device1_status, device2_status, history, mlocals,
                   ulocals, env, ticks, probed, observed>>

\* on_clicked, item "Status": show_status_window builds its window and figure.
ClickStatus ==
    /\ u_pc = "tray"
    /\ u_pc' = "sw_times"
    /\ UNCHANGED <<fields, history, m_pc, mlocals, ulocals, env, ticks, probed, observed>>

\* The copy taken by emptying the deque it reads.
CopyTimesDraining ==
    /\ u_pc = "sw_times"
    /\ r_times' = timestamps
    /\ timestamps' = <<>>
    /\ u_pc' = "sw_device1"
    /\ UNCHANGED <<fields, device1, device2, status_changes, m_pc, mlocals,
                   r_device1, r_device2, env, ticks, probed, observed>>

\* times = list(self.history['timestamps'])
CopyTimes ==
    /\ u_pc = "sw_times"
    /\ r_times' = timestamps
    /\ u_pc' = "sw_device1"
    /\ UNCHANGED <<fields, history, m_pc, mlocals, r_device1, r_device2, env, ticks, probed,
                   observed>>

\* device1_status = list(self.history['device1'])
CopyDevice1 ==
    /\ u_pc = "sw_device1"
    /\ r_device1' = device1
    /\ u_pc' = "sw_device2"
    /\ UNCHANGED <<fields, history, m_pc, mlocals, r_times, r_device2, env, ticks, probed,
                   observed>>

\* device2_status = list(self.history['device2'])
CopyDevice2 ==
    /\ u_pc = "sw_device2"
    /\ r_device2' = device2
    /\ u_pc' = "sw_plot"
    /\ UNCHANGED <<fields, history, m_pc, mlocals, r_times, r_device1, env, ticks, probed,
                   observed>>

\* ax.step(x, y) raises ValueError unless x and y have the same length.
PlotFails ==
    /\ r_times # <<>>
    /\ \/ Len(r_times) # Len(r_device1)
       \/ Len(r_times) # Len(r_device2)

\* if times: the two ax.step calls and the axis set-up. A ValueError leaves
\* show_status_window and the handler.
Plot ==
    /\ u_pc = "sw_plot"
    /\ IF PlotFails
          THEN /\ u_pc' = "tray"
               /\ r_times' = <<>>
               /\ r_device1' = <<>>
               /\ r_device2' = <<>>
          ELSE /\ u_pc' = "sw_changes"
               /\ UNCHANGED ulocals
    /\ UNCHANGED <<fields, history, m_pc, mlocals, env, ticks, probed, observed>>

\* for change in reversed(self.history['status_changes']): the text of the
\* "Status Changes" tab is filled in.
ListChanges ==
    /\ u_pc = "sw_changes"
    /\ u_pc' = "sw_open"
    /\ UNCHANGED <<fields, history, m_pc, mlocals, ulocals, env, ticks, probed, observed>>

\* window.mainloop() returns when the window is closed; show_status_window and
\* the handler return.
CloseWindow ==
    /\ u_pc = "sw_open"
    /\ u_pc' = "tray"
    /\ r_times' = <<>>
    /\ r_device1' = <<>>
    /\ r_device2' = <<>>
    /\ UNCHANGED <<fields, history, m_pc, mlocals, env, ticks, probed, observed>>

\* on_clicked, item "Exit": self.running = False, root.quit(), icon.stop().
ClickExit ==
    /\ u_pc = "tray"
    /\ running' = FALSE
    /\ u_pc' = "stopped"
    /\ UNCHANGED <<device1_status, device2_status, icon, icon_title, history, m_pc,
                   mlocals, ulocals, env, ticks, probed, observed>>

\* What becomes of the monitor thread when the interpreter shuts down: it is a
\* daemon thread, nothing joins it, and it is stopped wherever it is unless it
\* has left its loop already.
AtShutdown(pc) == IF pc = "exited" THEN "exited" ELSE "killed"

\* icon.stop() makes icon.run() return; run() returns, the script ends and the
\* interpreter shuts down.
ProcessExit ==
    /\ u_pc = "stopped"
    /\ u_pc' = "terminated"
    /\ m_pc' = AtShutdown(m_pc)
    /\ UNCHANGED <<fields, history, mlocals, ulocals, env, ticks, probed, observed>>

(***************************************************************************)
(* The specifications.                                                     *)
(***************************************************************************)
Next ==
    \/ Run
    \/ LoopCheck
    \/ ReadOld
    \/ PingAttempt
    \/ PingBackoff
    \/ AssignStatus
    \/ TakeTime
    \/ AppendTimestamp
    \/ AppendDevice1
    \/ AppendDevice2
    \/ RecordChange
    \/ UpdateIcon
    \/ Notify
    \/ Sleep
    \/ ClickStatus
    \/ CopyTimes
    \/ CopyDevice1
    \/ CopyDevice2
    \/ Plot
    \/ ListChanges
    \/ CloseWindow
    \/ ClickExit
    \/ ProcessExit

\* Any network, any use of the tray menu.
Spec == Init /\ [][Next]_vars

\* The monitor thread alone, nobody touching the tray menu.
NextLong ==
    \/ Run
    \/ LoopCheck
    \/ ReadOld
    \/ PingAttempt
    \/ PingBackoff
    \/ AssignStatus
    \/ TakeTime
    \/ AppendTimestamp
    \/ AppendDevice1
    \/ AppendDevice2
    \/ RecordChange
    \/ UpdateIcon
    \/ Notify
    \/ Sleep

\* A network that flaps on every tick, followed for LongTicks ticks.
SpecLong == InitLong /\ [][NextLong]_vars

\* The monitor thread alone, with a wall clock that can be set back.
NextClock ==
    \/ Run
    \/ LoopCheck
    \/ ReadOld
    \/ PingAttempt
    \/ PingBackoff
    \/ AssignStatus
    \/ TakeTime
    \/ AppendTimestamp
    \/ AppendDevice1
    \/ AppendDevice2
    \/ RecordChange
    \/ UpdateIcon
    \/ Notify
    \/ Sleep
    \/ ClockSetBack

\* Any network, a wall clock that can be set back. Spec and SpecLong follow the
\* runs in which the clock only moves forward.
SpecClock == Init /\ [][NextClock]_vars

(***************************************************************************)
(* What the run has observed, as the claims speak of it.                   *)
(***************************************************************************)
\* The composite status of an observed tick.
Composite(o) == <<o.d1, o.d2>>

\* The status the monitor is constructed with: both hosts unreachable.
InitialComposite == <<FALSE, FALSE>>

\* The last k items of s.
LastK(s, k) == IF Len(s) <= k THEN s ELSE SubSeq(s, Len(s) - k + 1, Len(s))

\* The tick being recorded is the last one observed; the composite status of
\* the tick before it is that of the observation before, and for the first
\* tick there is none.
ThisTick == observed[Len(observed)]

HasPreviousTick == Len(observed) >= 2

PreviousTick == observed[Len(observed) - 1]

\* The step of the monitor thread that decides whether tick N is logged.
RecordStep == m_pc = "record" /\ m_pc' = "icon"

\* A record of the tick being recorded is put at the end of the log.
RecordAppended ==
    /\ status_changes' # status_changes
    /\ status_changes' # <<>>
    /\ status_changes'[Len(status_changes')].time = ThisTick.time

(***************************************************************************)
(* C1                                                                      *)
(***************************************************************************)
\* C1 (as claimed): a change record is appended at tick N iff the composite
\* status of tick N differs from that of tick N-1, and at the first tick no
\* record is ever appended, whatever the probes return.
C1_AsClaimed ==
    [][RecordStep =>
         (RecordAppended <=>
             (HasPreviousTick /\ Composite(ThisTick) # Composite(PreviousTick)))]_vars

\* C1 (amended): a change record is appended at tick N iff the composite status
\* of tick N differs from that of tick N-1, where the first tick is compared
\* with the status the monitor was constructed with, (False, False): the first
\* tick appends a record iff it finds a host reachable.
C1_TransitionLogged ==
    [][RecordStep =>
         (RecordAppended <=>
             Composite(ThisTick) #
                (IF HasPreviousTick THEN Composite(PreviousTick)
                                    ELSE InitialComposite))]_vars

\* The first tick found host 1 reachable and was logged; the second tick found
\* the same status as the first and was not.
C1_Witness ==
    /\ m_pc = "icon"
    /\ Len(observed) = 2
    /\ Composite(observed[1]) = <<TRUE, FALSE>>
    /\ Composite(observed[2]) = <<TRUE, FALSE>>
    /\ Len(status_changes) = 1
    /\ status_changes[1].time = observed[1].time

(***************************************************************************)
(* C2                                                                      *)
(***************************************************************************)
\* ceil(a / b) for positive b.
CeilDiv(a, b) == (a + b - 1) \div b

\* The capacity the claim names: ceil(window_seconds / interval_seconds).
Capacity == CeilDiv(HistorySeconds, check_interval)

\* C2: in every reachable state each history series (timestamps, device1,
\* device2) holds at most ceil(window_seconds / interval_seconds) items.
C2_BoundedHistory ==
    /\ Len(timestamps) <= Capacity
    /\ Len(device1) <= Capacity
    /\ Len(device2) <= Capacity

\* More ticks than the series can hold have been recorded, and the series are
\* full.
C2_Witness ==
    /\ m_pc = "sleep"
    /\ Len(observed) > max_history
    /\ Len(timestamps) = max_history
    /\ Len(device1) = max_history
    /\ Len(device2) = max_history
    /\ max_history = Capacity

(***************************************************************************)
(* C3                                                                      *)
(***************************************************************************)
\* The three copies of show_status_window have been taken.
CopiesTaken == u_pc = "sw_plot"

\* Index i of the three copies is the sample of one observed tick.
SameTick(i) ==
    \E j \in 1..Len(observed) :
        /\ r_times[i] = observed[j].time
        /\ r_device1[i] = Sample(observed[j].d1)
        /\ r_device2[i] = Sample(observed[j].d2)

\* C3 (as claimed): the three copies the status view takes always have the
\* same length, and index i of each is the sample of the same tick, also when
\* the monitor thread is inside update_status meanwhile.
C3_AsClaimed ==
    CopiesTaken =>
        /\ Len(r_times) = Len(r_device1)
        /\ Len(r_times) = Len(r_device2)
        /\ \A i \in 1..Len(r_times) : SameTick(i)

(***************************************************************************)
(* C4                                                                      *)
(***************************************************************************)
\* ping has returned and its value is about to be stored.
PingReturned == m_pc = "assign"

\* C4: ping makes at most ping_retries attempts; it returns True at the first
\* attempt that succeeds, every attempt before it having failed and none being
\* made after it; it returns False only when ping_retries attempts were made
\* and every one failed.
C4_ProberResult ==
    /\ p_tried <= ping_retries
    /\ m_pc \in {"attempt", "backoff"} => (p_last # "ok" /\ p_failed = p_tried)
    /\ PingReturned =>
          /\ ret <=> p_last = "ok"
          /\ ret => (p_tried >= 1 /\ p_failed = p_tried - 1)
          /\ ~ret => (p_tried = ping_retries /\ p_failed = ping_retries
                      /\ p_last \in Failures)

\* ping returns True from its second attempt, the first having failed.
C4_Witness ==
    /\ PingReturned
    /\ ret
    /\ p_tried = 2
    /\ p_failed = 1

(***************************************************************************)
(* C5                                                                      *)
(***************************************************************************)
\* The samples of the last observed tick are the newest items of the series.
LastTickStored ==
    /\ timestamps # <<>> /\ device1 # <<>> /\ device2 # <<>>
    /\ timestamps[Len(timestamps)] = ThisTick.time
    /\ device1[Len(device1)] = Sample(ThisTick.d1)
    /\ device2[Len(device2)] = Sample(ThisTick.d2)

\* The step of ping in which an attempt fails, in whatever way.
FailedAttemptStep ==
    m_pc = "attempt" /\ p_tried' = p_tried + 1 /\ p_last' \in Failures

\* C5: whatever an attempt does (non-zero exit, timeout, subprocess error, any
\* other exception), nothing is raised out of ping: the attempt loop goes on to
\* its backoff, ping returns a boolean, and the tick goes on: once update_status
\* has returned, every tick started has been observed for both hosts and its
\* samples are stored for both.
C5_FailuresAreData ==
    /\ [](m_pc # "crashed")
    /\ [](PingReturned => ret \in BOOLEAN)
    /\ [](m_pc = "sleep" =>
            (Len(observed) = ticks /\ probed = {1, 2} /\ LastTickStored))
    /\ [][FailedAttemptStep => m_pc' = "backoff"]_vars

\* A tick in which every attempt against host 1 failed and host 2 answered:
\* update_status has returned and the samples 0 and 1 of that tick are stored.
C5_Witness ==
    /\ m_pc = "sleep"
    /\ ~ThisTick.d1
    /\ ThisTick.d2
    /\ LastTickStored
    /\ device1[Len(device1)] = 0
    /\ device2[Len(device2)] = 1

(***************************************************************************)
(* C6                                                                      *)
(***************************************************************************)
\* The series as the observed ticks give them.
TimesOf(obs) == [i \in 1..Len(obs) |-> obs[i].time]

Device1Of(obs) == [i \in 1..Len(obs) |-> Sample(obs[i].d1)]

Device2Of(obs) == [i \in 1..Len(obs) |-> Sample(obs[i].d2)]

\* An append to a full series q drops exactly its oldest item.
FifoStep(q, q2) ==
    (Len(q) = max_history /\ q2 # q) =>
        /\ Len(q2) = max_history
        /\ \A i \in 1..(max_history - 1) : q2[i] = q[i + 1]

\* C6: once a series holds max_history samples, every further append removes
\* exactly the oldest sample and adds the new one at the end: the length stays
\* max_history, and outside the three append statements the series hold the
\* max_history most recent ticks, oldest first.
C6_FifoEviction ==
    /\ [][/\ FifoStep(timestamps, timestamps')
          /\ FifoStep(device1, device1')
          /\ FifoStep(device2, device2')]_vars
    /\ [](m_pc \notin {"app_ts", "killed"} =>
            timestamps = LastK(TimesOf(observed), max_history))
    /\ [](m_pc \notin {"app_ts", "app_d1", "killed"} =>
            device1 = LastK(Device1Of(observed), max_history))
    /\ [](m_pc \notin {"app_ts", "app_d1", "app_d2", "killed"} =>
            device2 = LastK(Device2Of(observed), max_history))

\* Two ticks more than the series hold have been recorded: the series are full
\* and start with the third tick.
C6_Witness ==
    /\ m_pc = "sleep"
    /\ Len(observed) = max_history + 2
    /\ Len(timestamps) = max_history
    /\ timestamps[1] = observed[3].time
    /\ device1[1] = Sample(observed[3].d1)
    /\ device2[1] = Sample(observed[3].d2)

(***************************************************************************)
(* C7                                                                      *)
(***************************************************************************)
\* The change records of the ticks obs[i..], in order, prev being the composite
\* status before tick i.
RECURSIVE TransitionsFrom(_, _, _)
TransitionsFrom(obs, i, prev) ==
    IF i > Len(obs) THEN <<>>
    ELSE LET cur  == Composite(obs[i])
             rest == TransitionsFrom(obs, i + 1, cur)
         IN  IF cur # prev
                THEN <<[time    |-> obs[i].time,
                        device1 |-> [old |-> prev[1], new |-> cur[1]],
                        device2 |-> [old |-> prev[2], new |-> cur[2]]]>> \o rest
                ELSE rest

\* Every transition of the run so far, oldest first.
Transitions(obs) == TransitionsFrom(obs, 1, InitialComposite)

\* The ticks whose record statement has run: all observed ones, but for the
\* tick that is between datetime.now() and the record statement.
Recorded ==
    IF m_pc \in {"app_ts", "app_d1", "app_d2", "record"}
       THEN SubSeq(observed, 1, Len(observed) - 1)
       ELSE observed

\* C7: history['status_changes'] never holds more than 100 change records; a
\* record appended to a full log evicts the oldest one, so the log is always
\* the most recent (up to 100) transitions, oldest first.
C7_BoundedLog ==
    /\ Len(status_changes) <= 100
    /\ status_changes = LastK(Transitions(Recorded), 100)
    /\ \A i \in 1..(Len(status_changes) - 1) :
          status_changes[i].time < status_changes[i + 1].time

\* 102 ticks have each been a transition: the log holds 100 records, the two
\* oldest are gone and the newest is that of tick 102.
C7_Witness ==
    /\ m_pc = "sleep"
    /\ Len(observed) = 102
    /\ Len(Transitions(observed)) = 102
    /\ Len(status_changes) = 100
    /\ status_changes[1].time = observed[3].time
    /\ status_changes[100].time = observed[102].time

(***************************************************************************)
(* C8                                                                      *)
(***************************************************************************)
\* The step of the monitor thread that decides whether tick N is notified.
NotifyStep == m_pc = "notify" /\ m_pc' = "sleep"

\* The composite status tick N is compared with: that of tick N-1, and for the
\* first tick the status the monitor was constructed with.
ComparedWith ==
    IF HasPreviousTick THEN Composite(PreviousTick) ELSE InitialComposite

\* The notification of the tick being recorded: the title and the text of the
\* tick's own composite status.
NotificationOf(o) ==
    [title |-> "Network Status Change", message |-> StatusText(o.d1, o.d2)]

\* C8: in every tick a notification is sent iff the tick's composite status
\* differs from that of the tick before (the constructed status, for the first
\* tick), which are exactly the ticks that record a change; the message carries
\* the composite status of that tick; nothing else sends a notification.
C8_NotificationOnTransition ==
    /\ [][NotifyStep =>
            IF Composite(ThisTick) # ComparedWith
               THEN notifications' = Append(notifications, NotificationOf(ThisTick))
               ELSE notifications' = notifications]_vars
    /\ [][notifications' # notifications => NotifyStep]_vars
    /\ [](m_pc = "sleep" =>
            (/\ Len(notifications) = Len(status_changes)
             /\ (notifications # <<>> /\ Composite(ThisTick) # ComparedWith) =>
                    status_changes[Len(status_changes)].time = ThisTick.time))

\* Three ticks: both hosts down (nothing sent), host 1 up (sent), no change
\* (nothing sent); one notification, saying host 1 online and host 2 offline.
C8_Witness ==
    /\ m_pc = "sleep"
    /\ Len(observed) = 3
    /\ Composite(observed[1]) = <<FALSE, FALSE>>
    /\ Composite(observed[2]) = <<TRUE, FALSE>>
    /\ Composite(observed[3]) = <<TRUE, FALSE>>
    /\ notifications = <<[title |-> "Network Status Change",
                          message |-> <<"Online", "Offline">>]>>

(***************************************************************************)
(* C9                                                                      *)
(***************************************************************************)
\* What a tick produces: samples, a change record, a notification.
produced == <<timestamps, device1, device2, status_changes, notifications>>

\* C9: within a tick nothing is produced (no sample, no change record, no
\* notification) until the probes of both hosts have returned, and whenever
\* the monitor is past its probes the tick has a result for both hosts: what
\* is recorded is never the result of a subset of the hosts.
C9_TickAtomicity ==
    /\ [][probed # {1, 2} => UNCHANGED produced]_vars
    /\ [](m_pc \in {"now", "app_ts", "app_d1", "app_d2", "record", "icon",
                    "notify", "sleep"} => probed = {1, 2})
    /\ [](m_pc \in {"update", "attempt", "backoff", "assign"} =>
            Len(observed) = ticks - 1)

\* The second tick is probing its second host, the first probe having returned
\* another status than the tick before: the history still holds the first tick
\* alone.
C9_Witness ==
    /\ m_pc = "attempt"
    /\ ip = 2
    /\ ticks = 2
    /\ probed = {1}
    /\ device1_status # observed[1].d1
    /\ Len(timestamps) = 1 /\ Len(device1) = 1 /\ Len(device2) = 1
    /\ device1[1] = Sample(observed[1].d1)

(***************************************************************************)
(* C10                                                                     *)
(***************************************************************************)
\* The monitor loop is over: the thread has left its while loop, or the
\* interpreter has shut down and stopped it.
LoopOver == m_pc \in {"exited", "killed"}

\* C10 (as claimed): after a stop request the monitor loop ends only after
\* completing the tick that was in flight: when the loop is over every tick
\* started has been recorded, and the timestamps, device1 and device2 series
\* have equal length.
C10_AsClaimed ==
    LoopOver =>
        /\ Len(timestamps) = Len(device1)
        /\ Len(timestamps) = Len(device2)
        /\ Len(observed) = ticks

(***************************************************************************)
(* C11                                                                     *)
(***************************************************************************)
\* The monitor thread is in time.sleep(check_interval) and Exit has been
\* handled.
StopDuringSleep == m_pc = "sleep" /\ ~running

\* C11 (as claimed): a stop request that arrives while the monitor loop is in
\* its inter-tick sleep is noticed during that sleep: the loop does not sleep on
\* to the end of the check interval, its next step is out of the loop.
C11_AsClaimed ==
    [][(StopDuringSleep /\ m_pc' # m_pc) => m_pc' # "loop"]_vars

(***************************************************************************)
(* C12                                                                     *)
(***************************************************************************)
\* C12 (as claimed): in every reachable state the stored timestamps are
\* strictly increasing from oldest to newest.
C12_AsClaimed ==
    \A i \in 1..(Len(timestamps) - 1) : timestamps[i] < timestamps[i + 1]

(***************************************************************************)
(* C13                                                                     *)
(***************************************************************************)
\* update_status is not running: the monitor thread is between two ticks.
BetweenTicks == m_pc \in {"loop", "sleep"}

\* Every tick so far has observed the composite status c.
ConstantRun(c) ==
    /\ observed # <<>>
    /\ \A i \in 1..Len(observed) : Composite(observed[i]) = c

Min(a, b) == IF a <= b THEN a ELSE b

\* C13: after k >= 1 ticks in which each host's probe gave the same result in
\* every tick, at least one host being reachable, the current status equals
\* those results, the transition log has exactly 1 entry, and every series has
\* length k when k <= max_history (and max_history beyond that), each sample
\* being that result.
C13_ConstantScenario ==
    \A c \in (BOOLEAN \X BOOLEAN) \ {InitialComposite} :
        (BetweenTicks /\ ConstantRun(c)) =>
            /\ <<device1_status, device2_status>> = c
            /\ Len(status_changes) = 1
            /\ Len(timestamps) = Min(Len(observed), max_history)
            /\ Len(device1) = Min(Len(observed), max_history)
            /\ Len(device2) = Min(Len(observed), max_history)
            /\ \A i \in 1..Len(device1) : device1[i] = Sample(c[1])
            /\ \A i \in 1..Len(device2) : device2[i] = Sample(c[2])

\* Host 1 has answered and host 2 has not, in each of max_history ticks.
C13_Witness ==
    /\ m_pc = "sleep"
    /\ ConstantRun(<<TRUE, FALSE>>)
    /\ Len(observed) = max_history
    /\ Len(observed) >= 2
    /\ Len(timestamps) = Len(observed)
    /\ Len(status_changes) = 1
    /\ device1_status /\ ~device2_status

(***************************************************************************)
(* C14                                                                     *)
(***************************************************************************)
\* The monitor thread is not inside update_status (it has not started, is
\* between two ticks, or has left its loop).
Idle == m_pc \in {"unstarted", "loop", "sleep", "exited"}

\* C14: every completed tick appends exactly one timestamp and exactly one
\* sample to each host's series: a series changes only in its own append
\* statement, and whenever the monitor loop is between ticks the three series
\* have the same length, min(completed ticks, max_history).
C14_OneSamplePerTick ==
    /\ [](Idle => /\ Len(timestamps) = Min(ticks, max_history)
                  /\ Len(device1) = Min(ticks, max_history)
                  /\ Len(device2) = Min(ticks, max_history))
    /\ [][timestamps' # timestamps => (m_pc = "app_ts" /\ m_pc' = "app_d1")]_vars
    /\ [][device1' # device1 => (m_pc = "app_d1" /\ m_pc' = "app_d2")]_vars
    /\ [][device2' # device2 => (m_pc = "app_d2" /\ m_pc' = "record")]_vars

\* One tick more than the series hold has been completed, host 1 unreachable
\* in the last one: the three series are full.
C14_Witness ==
    /\ m_pc = "sleep"
    /\ ticks = max_history + 1
    /\ ~device1_status
    /\ Len(timestamps) = max_history
    /\ Len(device1) = max_history
    /\ Len(device2) = max_history

(***************************************************************************)
(* C15                                                                     *)
(***************************************************************************)
\* The state of the engine: the current status, the series, the change log.
engine == <<device1_status, device2_status, timestamps, device1, device2,
            status_changes>>

\* A step of show_status_window, from the menu click to the closed window.
StatusViewStep ==
    /\ u_pc' # u_pc
    /\ \/ u_pc = "tray" /\ u_pc' = "sw_times"
       \/ u_pc \in {"sw_times", "sw_device1", "sw_device2", "sw_plot",
                    "sw_changes", "sw_open"}

\* A step that computes the status text: for the tooltip (run, update_status)
\* or for a notification.
StatusTextStep ==
    \/ u_pc = "main" /\ u_pc' = "tray"
    \/ m_pc = "icon" /\ m_pc' = "notify"
    \/ m_pc = "notify" /\ m_pc' = "sleep"

\* C15: opening the status view and computing the status text leave the
\* current status, every history series and the change log unchanged, in every
\* state and whatever the monitor thread is doing meanwhile.
C15_ReadsDoNotMutate ==
    /\ [][StatusViewStep => UNCHANGED engine]_vars
    /\ [][StatusTextStep => UNCHANGED engine]_vars

\* The status view has copied a non-empty history while update_status is
\* between its appends, and the history is as the monitor thread left it.
C15_Witness ==
    /\ u_pc = "sw_device1"
    /\ m_pc = "app_d1"
    /\ r_times # <<>>
    /\ r_times = timestamps
    /\ Len(timestamps) = Len(device1) + 1

(***************************************************************************)
(* C16                                                                     *)
(***************************************************************************)
\* C16 (as claimed): a change record captures only the hosts whose flag
\* differed: a host whose flag did not change is not in the record, so every
\* host a record holds has old # new.
C16_AsClaimed ==
    \A i \in 1..Len(status_changes) :
        \A h \in DOMAIN status_changes[i] \ {"time"} :
            status_changes[i][h].old # status_changes[i][h].new

\* The composite status before observed tick j.
CompositeBefore(j) ==
    IF j > 1 THEN Composite(observed[j - 1]) ELSE InitialComposite

\* Record r is the record of observed tick j: both hosts, old and new.
RecordOfTick(r, j) ==
    /\ r.time = observed[j].time
    /\ r.device1 = [old |-> CompositeBefore(j)[1], new |-> observed[j].d1]
    /\ r.device2 = [old |-> CompositeBefore(j)[2], new |-> observed[j].d2]

\* C16 (amended): every change record carries the (old, new) pair of both
\* hosts, changed or not: old is the host's flag of the tick before, new its
\* flag of this tick, and the pairs of at least one host differ; the hosts
\* whose flag changed are those with old # new, and a host whose flag did not
\* change is in the record with old = new.
C16_BothHostsRecorded ==
    \A i \in 1..Len(status_changes) :
        /\ DOMAIN status_changes[i] = {"time", "device1", "device2"}
        /\ \E j \in 1..Len(observed) : RecordOfTick(status_changes[i], j)
        /\ \/ status_changes[i].device1.old # status_changes[i].device1.new
           \/ status_changes[i].device2.old # status_changes[i].device2.new

\* A record of host 1 coming up while host 2 stays down: host 2 is in the
\* record, False to False.
C16_Witness ==
    /\ status_changes # <<>>
    /\ status_changes[1].device1 = [old |-> FALSE, new |-> TRUE]
    /\ status_changes[1].device2 = [old |-> FALSE, new |-> FALSE]

(***************************************************************************)
(* C17                                                                     *)
(***************************************************************************)
\* C17 (as claimed): the backoff wait happens between two consecutive attempts
\* and nowhere else: when ping returns it has waited once less than it has
\* made attempts, so a ping whose ping_retries attempts all failed has made
\* exactly ping_retries attempts and waited ping_retries - 1 times, with no
\* wait after the final attempt.
C17_AsClaimed ==
    PingReturned =>
        /\ p_sleeps = p_tried - 1
        /\ ~ret => (p_tried = ping_retries /\ p_sleeps = ping_retries - 1)

(***************************************************************************)
(* C18                                                                     *)
(***************************************************************************)
\* C18 (as claimed): in every reachable state in which the history is not
\* empty, the middle of a tick included, the current status of each device
\* equals the last sample stored in that device's series.
C18_AsClaimed ==
    /\ device1 # <<>> => device1[Len(device1)] = Sample(device1_status)
    /\ device2 # <<>> => device2[Len(device2)] = Sample(device2_status)

(***************************************************************************)
(* C19                                                                     *)
(***************************************************************************)
\* The statuses a record went to.
NewOf(r) == <<r.device1.new, r.device2.new>>

\* The statuses a record came from.
OldOf(r) == <<r.device1.old, r.device2.old>>

\* C19: for any two consecutive records of history['status_changes'] the old
\* status of each device in the later record equals its new status in the
\* earlier one; every record has a device with old # new; and whenever the
\* monitor loop is between ticks and the log is not empty, the new statuses of
\* the most recent record are the current device statuses.
C19_LogChaining ==
    /\ \A i \in 1..(Len(status_changes) - 1) :
          OldOf(status_changes[i + 1]) = NewOf(status_changes[i])
    /\ \A i \in 1..Len(status_changes) :
          OldOf(status_changes[i]) # NewOf(status_changes[i])
    /\ (Idle /\ status_changes # <<>>) =>
          NewOf(status_changes[Len(status_changes)]) =
             <<device1_status, device2_status>>

\* Three records, with a tick without change after the second: host 1 up,
\* host 2 up, nothing, host 1 down; the monitor is between ticks.
C19_Witness ==
    /\ m_pc = "sleep"
    /\ Len(observed) = 4
    /\ Len(status_changes) = 3
    /\ NewOf(status_changes[1]) = <<TRUE, FALSE>>
    /\ NewOf(status_changes[2]) = <<TRUE, TRUE>>
    /\ Composite(observed[3]) = <<TRUE, TRUE>>
    /\ NewOf(status_changes[3]) = <<FALSE, TRUE>>

====
